---- MODULE Spec2Model ----
(***************************************************************************)
(* Model of the node-diagram canvas of src/main.rs (mod network): the      *)
(* viewport transform, hit-testing, the interaction state machine driven   *)
(* by Network::update, and the node render cache used by Network::draw.    *)
(*                                                                         *)
(* f32 values are modelled as exact rationals <<n, d>> in lowest terms     *)
(* with d > 0, so that equalities between computed values are the          *)
(* algebraic ones (no rounding).                                           *)
(***************************************************************************)
EXTENDS Integers, Sequences, FiniteSets, TLC

(***************************************************************************)
(* Exact rational arithmetic                                               *)
(***************************************************************************)
Abs(a) == IF a < 0 THEN -a ELSE a

RECURSIVE GCD(_, _)
GCD(a, b) == IF b = 0 THEN a ELSE GCD(b, a % b)

Rat(n, d) ==
    LET g == GCD(Abs(n), Abs(d))
        sgn == IF d < 0 THEN -1 ELSE 1
    IN  <<(sgn * n) \div g, (sgn * d) \div g>>

R(n) == <<n, 1>>

RAdd(a, b) == Rat(a[1] * b[2] + b[1] * a[2], a[2] * b[2])

RSub(a, b) == Rat(a[1] * b[2] - b[1] * a[2], a[2] * b[2])

RMul(a, b) == Rat(a[1] * b[1], a[2] * b[2])

RDiv(a, b) == Rat(a[1] * b[2], a[2] * b[1])

RNeg(a) == <<-a[1], a[2]>>

RLt(a, b) == a[1] * b[2] < b[1] * a[2]

RLe(a, b) == a[1] * b[2] <= b[1] * a[2]

\* f32::max and f32::min
RMax(a, b) == IF RLt(a, b) THEN b ELSE a

RMin(a, b) == IF RLt(b, a) THEN b ELSE a

(***************************************************************************)
(* iced Point / Vector / Rectangle                                         *)
(***************************************************************************)
Vec(x, y) == [x |-> x, y |-> y]

VAdd(a, b) == Vec(RAdd(a.x, b.x), RAdd(a.y, b.y))

VSub(a, b) == Vec(RSub(a.x, b.x), RSub(a.y, b.y))

VScale(a, k) == Vec(RMul(a.x, k), RMul(a.y, k))

Rect(x, y, w, h) == [x |-> R(x), y |-> R(y), width |-> R(w), height |-> R(h)]

\* Rectangle::contains: inclusive of all four edges
contains(r, p) ==
    /\ RLe(r.x, p.x)
    /\ RLe(p.x, RAdd(r.x, r.width))
    /\ RLe(r.y, p.y)
    /\ RLe(p.y, RAdd(r.y, r.height))

\* Rectangle::size
RectSize(r) == [width |-> r.width, height |-> r.height]

\* Rectangle::center
RectCenter(r) ==
    Vec(RAdd(r.x, RDiv(r.width, R(2))), RAdd(r.y, RDiv(r.height, R(2))))

(***************************************************************************)
(* Cursor                                                                  *)
(***************************************************************************)
Unavailable == [available |-> FALSE, x |-> R(0), y |-> R(0)]

Available(x, y) == [available |-> TRUE, x |-> R(x), y |-> R(y)]

NoPosition == [some |-> FALSE, x |-> R(0), y |-> R(0)]

SomePosition(p) == [some |-> TRUE, x |-> p.x, y |-> p.y]

\* Cursor::position_in(&bounds)
position_in(cursor, bounds) ==
    IF cursor.available /\ contains(bounds, cursor)
    THEN SomePosition(Vec(RSub(cursor.x, bounds.x), RSub(cursor.y, bounds.y)))
    ELSE NoPosition

\* Cursor::position_from(origin)
position_from(cursor, origin) ==
    IF cursor.available
    THEN SomePosition(VSub(cursor, origin))
    ELSE NoPosition

(***************************************************************************)
(* mod network: data                                                       *)
(***************************************************************************)
MIN_SCALING == <<1, 10>>

MAX_SCALING == <<2, 1>>

ZeroVec == Vec(R(0), R(0))

\* enum Interaction
InteractionNone ==
    [kind |-> "None", node_id |-> 0, translation |-> ZeroVec, start |-> ZeroVec]

PanningScreen(translation, start) ==
    [kind |-> "PanningScreen", node_id |-> 0,
     translation |-> translation, start |-> start]

PanningNode(node_id, translation, start) ==
    [kind |-> "PanningNode", node_id |-> node_id,
     translation |-> translation, start |-> start]

\* struct Node
Node(id, x, y, w, h) ==
    [id |-> id, bounds |-> Rect(x, y, w, h), color |-> "BLACK",
     is_selected |-> FALSE]

\* Node::set_selected
set_selected(node, selected) == [node EXCEPT !.is_selected = selected]

\* Node::set_new_pos
set_new_pos(node, new_pos) ==
    [node EXCEPT !.bounds.x = new_pos.x, !.bounds.y = new_pos.y]

\* Node::get_pos
get_pos(node) == Vec(node.bounds.x, node.bounds.y)

(***************************************************************************)
(* Coordinate transform and hit-testing                                    *)
(***************************************************************************)
\* Network::visible_region
visible_region(size, translation, scaling) ==
    LET width == RDiv(size.width, scaling)
        height == RDiv(size.height, scaling)
    IN  [x |-> RSub(RNeg(translation.x), RDiv(width, R(2))),
         y |-> RSub(RNeg(translation.y), RDiv(height, R(2))),
         width |-> width,
         height |-> height]

\* Network::project
project(position, size, translation, scaling) ==
    LET region == visible_region(size, translation, scaling)
    IN  Vec(RAdd(RDiv(position.x, scaling), region.x),
            RAdd(RDiv(position.y, scaling), region.y))

NoNode == -1

\* get_node_at_screen that returns the last node, in store order, whose
\* bounds contain the position
get_node_at_screen_last(nodes, position) ==
    LET hits == {i \in 1..Len(nodes) : contains(nodes[i].bounds, position)}
    IN  IF hits = {} THEN NoNode
        ELSE nodes[CHOOSE i \in hits : \A j \in hits : j <= i].id

\* Network::get_node_at_screen: id of the first node, in store order,
\* whose bounds contain the position
get_node_at_screen(nodes, position) ==
    LET hits == {i \in 1..Len(nodes) : contains(nodes[i].bounds, position)}
    IN  IF hits = {} THEN NoNode
        ELSE nodes[CHOOSE i \in hits : \A j \in hits : i <= j].id

\* unselect_all_nodes that skips the first node of the store
unselect_all_nodes_skip_first(nodes) ==
    [i \in 1..Len(nodes) |->
        IF i = 1 THEN nodes[i] ELSE set_selected(nodes[i], FALSE)]

\* Network::unselect_all_nodes
unselect_all_nodes(nodes) ==
    [i \in 1..Len(nodes) |-> set_selected(nodes[i], FALSE)]

\* self.nodes.iter_mut().find(|x| x.id == id): index of the first node with
\* that id, 0 when there is none
find(nodes, id) ==
    LET found == {i \in 1..Len(nodes) : nodes[i].id = id}
    IN  IF found = {} THEN 0 ELSE CHOOSE i \in found : \A j \in found : i <= j

(***************************************************************************)
(* Render cache (iced canvas Cache) and the node layer drawn into it       *)
(***************************************************************************)
\* Cache::clear / the default (empty) cache
CacheEmpty == [state |-> "Empty", bounds |-> RectSize(Rect(0, 0, 0, 0)),
               primitive |-> <<>>]

\* Frame transform: a local point q is painted at a * q + b
IdentityTransform == [a |-> R(1), b |-> ZeroVec]

\* Frame::translate
frame_translate(tr, v) == [tr EXCEPT !.b = VAdd(tr.b, VScale(v, tr.a))]

\* Frame::scale
frame_scale(tr, k) == [tr EXCEPT !.a = RMul(tr.a, k)]

\* the three transform calls at the top of the loop body of the closure
node_transform(tr, center, translation, scaling) ==
    frame_translate(frame_scale(frame_translate(tr, center), scaling),
                    translation)

\* Node::draw under the frame's current transform: the painted rectangle
\* in screen space and its stroke
node_draw(node, tr, scale) ==
    LET corner == VAdd(VScale(get_pos(node), tr.a), tr.b)
    IN  [id |-> node.id,
         x |-> corner.x,
         y |-> corner.y,
         width |-> RMul(node.bounds.width, tr.a),
         height |-> RMul(node.bounds.height, tr.a),
         fill |-> node.color,
         stroke |-> IF node.is_selected THEN "RED" ELSE node.color,
         stroke_width |-> RMul(<<5, 2>>, scale)]

\* the decorative line drawn before each node, under the same transform
line_draw(tr, scale) ==
    LET from == VAdd(VScale(ZeroVec, tr.a), tr.b)
        to == VAdd(VScale(Vec(R(500), R(0)), tr.a), tr.b)
    IN  [from |-> from, to |-> to, stroke_width |-> RMul(R(5), scale)]

\* the closure passed to nodes_cache.draw: the frame's transform is never
\* reset between nodes, so each iteration composes onto the previous one
RECURSIVE draw_nodes(_, _, _, _, _, _)
draw_nodes(nodes, i, tr, center, translation, scaling) ==
    IF i > Len(nodes) THEN <<>>
    ELSE LET t == node_transform(tr, center, translation, scaling)
         IN  <<[line |-> line_draw(t, scaling),
                body |-> node_draw(nodes[i], t, scaling)]>>
             \o draw_nodes(nodes, i + 1, t, center, translation, scaling)

\* geometry of the node layer for the current state
nodes_geometry(self, bounds) ==
    draw_nodes(self.nodes, 1, IdentityTransform,
               Vec(RDiv(bounds.width, R(2)), RDiv(bounds.height, R(2))),
               self.translation, self.scaling)

\* Cache::draw: reuse the stored geometry when it is filled for the same
\* size, otherwise run the closure and store its result
cache_draw(cache, size, geometry) ==
    IF cache.state = "Filled" /\ cache.bounds = size
    THEN cache
    ELSE [state |-> "Filled", bounds |-> size, primitive |-> geometry]

\* Network::draw
draw(self, bounds) ==
    [self EXCEPT !.nodes_cache =
        cache_draw(self.nodes_cache, RectSize(bounds),
                   nodes_geometry(self, bounds))]

(***************************************************************************)
(* Network::update, one operator per branch.  self is the Network record   *)
(* [nodes_cache, interaction, translation, scaling, nodes].                *)
(***************************************************************************)
\* the ButtonReleased test that precedes the cursor test
release_interaction(event, interaction) ==
    IF event.type = "ButtonReleased" THEN InteractionNone ELSE interaction

\* ButtonPressed(Left) that records the node's place in the store instead
\* of its id
pressed_left_records_index(self, cursor_position, node_id) ==
    LET i == find(self.nodes, node_id)
        s1 == IF node_id # NoNode
              THEN IF i # 0
                   THEN [self EXCEPT
                           !.interaction =
                               PanningNode(i,
                                           get_pos(self.nodes[i]),
                                           cursor_position),
                           !.nodes[i] = set_selected(@, TRUE)]
                   ELSE self
              ELSE [self EXCEPT !.nodes = unselect_all_nodes(@)]
    IN  [s1 EXCEPT !.nodes_cache = CacheEmpty]

\* ButtonPressed(Left) that records the viewport translation instead of
\* the node's position
pressed_left_records_viewport(self, cursor_position, node_id) ==
    LET i == find(self.nodes, node_id)
        s1 == IF node_id # NoNode
              THEN IF i # 0
                   THEN [self EXCEPT
                           !.interaction =
                               PanningNode(self.nodes[i].id,
                                           self.translation,
                                           cursor_position),
                           !.nodes[i] = set_selected(@, TRUE)]
                   ELSE self
              ELSE [self EXCEPT !.nodes = unselect_all_nodes(@)]
    IN  [s1 EXCEPT !.nodes_cache = CacheEmpty]

\* ButtonPressed(Left)
pressed_left(self, cursor_position, node_id) ==
    LET i == find(self.nodes, node_id)
        s1 == IF node_id # NoNode
              THEN IF i # 0
                   THEN [self EXCEPT
                           !.interaction =
                               PanningNode(self.nodes[i].id,
                                           Vec(self.nodes[i].bounds.x,
                                               self.nodes[i].bounds.y),
                                           cursor_position),
                           !.nodes[i] = set_selected(@, TRUE)]
                   ELSE self
              ELSE [self EXCEPT !.nodes = unselect_all_nodes(@)]
    IN  [s1 EXCEPT !.nodes_cache = CacheEmpty]

\* ButtonPressed(Middle) that also clears the node cache
pressed_middle_clears(self, cursor_position) ==
    [self EXCEPT
       !.interaction = PanningScreen(self.translation, cursor_position),
       !.nodes_cache = CacheEmpty]

\* ButtonPressed(Middle)
pressed_middle(self, cursor_position) ==
    [self EXCEPT !.interaction = PanningScreen(self.translation, cursor_position)]

\* translation + (cursor_position - start) * (1.0 / scaling)
pan_target(translation, cursor_position, start, scaling) ==
    VAdd(translation,
         VScale(VSub(cursor_position, start), RDiv(R(1), scaling)))

\* CursorMoved while PanningScreen with the cursor delta multiplied by
\* scaling instead of its reciprocal
moved_panning_screen_unscaled(self, cursor_position) ==
    [self EXCEPT
       !.translation =
           VAdd(self.interaction.translation,
                VScale(VSub(cursor_position, self.interaction.start),
                       self.scaling)),
       !.nodes_cache = CacheEmpty]

\* CursorMoved while PanningScreen
moved_panning_screen(self, cursor_position) ==
    [self EXCEPT
       !.translation = pan_target(self.interaction.translation, cursor_position,
                                  self.interaction.start, self.scaling),
       !.nodes_cache = CacheEmpty]

\* CursorMoved while PanningNode with the cursor delta added to the
\* node's current position instead of its position at the press
moved_panning_node_incremental(self, cursor_position) ==
    LET i == find(self.nodes, self.interaction.node_id)
    IN  IF i # 0
        THEN [self EXCEPT
                !.nodes[i] =
                    set_new_pos(@, pan_target(get_pos(self.nodes[i]),
                                              cursor_position,
                                              self.interaction.start,
                                              self.scaling)),
                !.nodes_cache = CacheEmpty]
        ELSE self

\* CursorMoved while PanningNode that moves the first node of the store
\* instead of the node recorded in the interaction
moved_panning_node_first(self, cursor_position) ==
    IF Len(self.nodes) > 0
    THEN [self EXCEPT
            !.nodes[1] =
                set_new_pos(@, pan_target(self.interaction.translation,
                                          cursor_position,
                                          self.interaction.start,
                                          self.scaling)),
            !.nodes_cache = CacheEmpty]
    ELSE self

\* CursorMoved while PanningNode
moved_panning_node(self, cursor_position) ==
    LET i == find(self.nodes, self.interaction.node_id)
    IN  IF i # 0
        THEN [self EXCEPT
                !.nodes[i] =
                    set_new_pos(@, pan_target(self.interaction.translation,
                                              cursor_position,
                                              self.interaction.start,
                                              self.scaling)),
                !.nodes_cache = CacheEmpty]
        ELSE self

\* CursorMoved
cursor_moved(self, cursor_position) ==
    LET s1 == CASE self.interaction.kind = "PanningScreen" ->
                       moved_panning_screen(self, cursor_position)
                [] self.interaction.kind = "PanningNode" ->
                       moved_panning_node(self, cursor_position)
                [] OTHER -> self
    IN  [self |-> s1,
         status |-> IF s1.interaction.kind = "None"
                    THEN "Ignored" ELSE "Captured"]

\* the guard of the zoom step with inclusive comparisons
can_zoom_inclusive(scaling, y) ==
    \/ RLt(y, R(0)) /\ RLe(MIN_SCALING, scaling)
    \/ RLt(R(0), y) /\ RLe(scaling, MAX_SCALING)

\* the guard of the zoom step
can_zoom(scaling, y) ==
    \/ RLt(y, R(0)) /\ RLt(MIN_SCALING, scaling)
    \/ RLt(R(0), y) /\ RLt(scaling, MAX_SCALING)

\* zoom_scaling without the .max(MIN_SCALING)
zoom_scaling_no_floor(scaling, y) ==
    RMin(RMul(scaling, RAdd(R(1), RDiv(y, R(30)))), MAX_SCALING)

\* zoom_scaling with the sign of the wheel amount inverted
zoom_scaling_inverted(scaling, y) ==
    RMin(RMax(RMul(scaling, RSub(R(1), RDiv(y, R(30)))), MIN_SCALING),
         MAX_SCALING)

\* (scaling * (1.0 + y / 30.0)).max(MIN_SCALING).min(MAX_SCALING)
zoom_scaling(scaling, y) ==
    RMin(RMax(RMul(scaling, RAdd(R(1), RDiv(y, R(30)))), MIN_SCALING),
         MAX_SCALING)

\* the re-centering of the translation after a zoom step
zoom_translation(translation, cursor_to_center, old_scaling, new_scaling) ==
    LET factor == RSub(new_scaling, old_scaling)
    IN  VSub(translation,
             Vec(RDiv(RMul(cursor_to_center.x, factor),
                      RMul(old_scaling, old_scaling)),
                 RDiv(RMul(cursor_to_center.y, factor),
                      RMul(old_scaling, old_scaling))))

\* WheelScrolled without the nodes_cache.clear()
wheel_scrolled_no_clear(self, y, bounds, cursor) ==
    IF can_zoom(self.scaling, y)
    THEN LET old_scaling == self.scaling
             new_scaling == zoom_scaling(old_scaling, y)
             cursor_to_center == position_from(cursor, RectCenter(bounds))
         IN  [self EXCEPT
                !.scaling = new_scaling,
                !.translation =
                    IF cursor_to_center.some
                    THEN zoom_translation(@, cursor_to_center, old_scaling,
                                          new_scaling)
                    ELSE @]
    ELSE self

\* WheelScrolled { delta } with vertical amount y
wheel_scrolled(self, y, bounds, cursor) ==
    IF can_zoom(self.scaling, y)
    THEN LET old_scaling == self.scaling
             new_scaling == zoom_scaling(old_scaling, y)
             cursor_to_center == position_from(cursor, RectCenter(bounds))
         IN  [self EXCEPT
                !.scaling = new_scaling,
                !.translation =
                    IF cursor_to_center.some
                    THEN zoom_translation(@, cursor_to_center, old_scaling,
                                          new_scaling)
                    ELSE @,
                !.nodes_cache = CacheEmpty]
    ELSE self

\* the match on the event, reached when the cursor is inside the bounds
update_in_bounds(s0, event, bounds, cursor, position) ==
    LET node_id == get_node_at_screen(
                       s0.nodes,
                       project(position, RectSize(bounds),
                               s0.translation, s0.scaling))
    IN  CASE event.type = "ButtonPressed" ->
               [self |-> CASE event.button = "Left" ->
                                  pressed_left(s0, position, node_id)
                           [] event.button = "Middle" ->
                                  pressed_middle(s0, position)
                           [] OTHER -> s0,
                status |-> "Captured"]
          [] event.type = "CursorMoved" ->
               cursor_moved(s0, position)
          [] event.type = "WheelScrolled" ->
               [self |-> wheel_scrolled(s0, event.y, bounds, cursor),
                status |-> "Captured"]
          [] OTHER -> [self |-> s0, status |-> "Ignored"]

\* update with the ButtonReleased test placed after the cursor test
update_release_after_cursor_test(self, event, bounds, cursor) ==
    LET cursor_position == position_in(cursor, bounds)
    IN  IF ~cursor_position.some
        THEN [self |-> self, status |-> "Ignored"]
        ELSE update_in_bounds(
                 [self EXCEPT !.interaction =
                      release_interaction(event, self.interaction)],
                 event, bounds, cursor,
                 Vec(cursor_position.x, cursor_position.y))

\* update that falls back to the cursor's window position when the cursor
\* has no position inside the bounds
update_unchecked_position(self, event, bounds, cursor) ==
    LET s0 == [self EXCEPT
                 !.interaction = release_interaction(event, self.interaction)]
        cursor_position == position_in(cursor, bounds)
    IN  IF cursor_position.some
        THEN update_in_bounds(s0, event, bounds, cursor,
                              Vec(cursor_position.x, cursor_position.y))
        ELSE IF cursor.available
        THEN update_in_bounds(s0, event, bounds, cursor,
                              Vec(cursor.x, cursor.y))
        ELSE [self |-> s0, status |-> "Ignored"]

\* Network::update
update(self, event, bounds, cursor) ==
    LET s0 == [self EXCEPT
                 !.interaction = release_interaction(event, self.interaction)]
        cursor_position == position_in(cursor, bounds)
    IN  IF ~cursor_position.some
        THEN [self |-> s0, status |-> "Ignored"]
        ELSE update_in_bounds(s0, event, bounds, cursor,
                              Vec(cursor_position.x, cursor_position.y))

(***************************************************************************)
(* Inputs and bounds of the model                                          *)
(***************************************************************************)
\* number of calls (update or draw) in a behaviour of Spec
MaxSteps == 3

\* number of calls in a behaviour of SpecGesture
MaxGestureSteps == 5

\* layout rectangles of the canvas; the window is not resizable, so the
\* host passes the same rectangle to every update and draw
BoundsSet == {Rect(0, 0, 800, 600)}

\* cursor values the host passes
Cursors == {Available(475, 375), Available(300, 200), Available(900, 700),
           Unavailable}

Buttons == {"Left", "Middle", "Right"}

\* vertical wheel amounts
WheelYs == {30, -15, -60, 0}

\* the store built by Network::new
NewStore == <<Node(0, 0, 0, 100, 100)>>

\* a store with two overlapping nodes
TwoStore == <<Node(0, 0, 0, 100, 100), Node(1, 50, 50, 100, 100)>>

Stores == {NewStore, TwoStore}

\* inputs of SpecGesture: the events that take part in a drag or a pan
GestureCursors == {Available(475, 375), Available(525, 425),
                   Available(300, 200), Available(900, 700)}

GesturePressCursors == {Available(475, 375), Available(525, 425),
                        Available(300, 200)}

GestureReleaseCursors == {Available(475, 375), Available(900, 700)}

GestureWheelCursors == {Available(475, 375)}

GestureButtons == {"Left", "Middle"}

GestureWheelYs == {-15}

(***************************************************************************)
(* State                                                                   *)
(***************************************************************************)
VARIABLES
    nodes_cache,   \* Network.nodes_cache
    interaction,   \* Network.interaction
    translation,   \* Network.translation
    scaling,       \* Network.scaling
    nodes,         \* Network.nodes
    bounds,        \* the layout rectangle of the canvas
    ev,            \* the last call: its arguments and what it found
    status,        \* event::Status returned by the last update
    gest,          \* history of the gesture in progress
    hist,          \* history of the draw calls
    steps          \* number of calls so far

vars == <<nodes_cache, interaction, translation, scaling, nodes, bounds,
          ev, status, gest, hist, steps>>

\* the Network value
Self == [nodes_cache |-> nodes_cache, interaction |-> interaction,
         translation |-> translation, scaling |-> scaling, nodes |-> nodes]

\* what the node layer is drawn from
Drawn(self) == [nodes |-> self.nodes, translation |-> self.translation,
                scaling |-> self.scaling]

\* what the history keeps of a call: the event, and the cursor position
\* inside the bounds when there is one; the button of a release is not kept
\* (update matches ButtonReleased(_))
Call(type, button, y, position) ==
    [type |-> type,
     button |-> IF type = "ButtonPressed" THEN button ELSE "None",
     y |-> y,
     position |-> position]

NoEvent == Call("None", "None", R(0), NoPosition)

SelectedIds(ns) == {ns[i].id : i \in {j \in 1..Len(ns) : ns[j].is_selected}}

NoGesture == [kind |-> "None"]

\* Network::new
Init ==
    /\ nodes_cache = CacheEmpty
    /\ interaction = InteractionNone
    /\ translation = ZeroVec
    /\ scaling = R(1)
    /\ nodes \in Stores
    /\ bounds \in BoundsSet
    /\ ev = [call |-> NoEvent, hit |-> NoNode,
             before |-> InteractionNone, selected |-> {}, changed |-> FALSE,
             rebuilt |-> FALSE, unchanged |-> FALSE, quiet |-> FALSE,
             between |-> 0]
    /\ status = "None"
    /\ gest = NoGesture
    /\ hist = [drawn |-> FALSE, changed |-> FALSE, clearing |-> FALSE,
               calls |-> 0,
               built_from |-> Drawn(Self)]
    /\ steps = 0

(***************************************************************************)
(* History bookkeeping                                                     *)
(***************************************************************************)
\* the gesture the last press started, the cursor positions it has seen,
\* and whether it is still undisturbed by other button events or by a
\* change of scaling
next_gest(g, pre, post, call, position, hit) ==
    LET p == Vec(position.x, position.y)
    IN  CASE call.type = "ButtonPressed" ->
               IF position.some /\ call.button = "Left" /\ hit # NoNode
               THEN [kind |-> "node", id |-> hit,
                     origin |-> get_pos(pre.nodes[find(pre.nodes, hit)]),
                     c0 |-> p, via |-> p, c1 |-> p, s |-> pre.scaling,
                     moves |-> 0, released |-> FALSE]
               ELSE IF position.some /\ call.button = "Middle"
               THEN [kind |-> "screen", id |-> NoNode,
                     origin |-> pre.translation,
                     c0 |-> p, via |-> p, c1 |-> p, s |-> pre.scaling,
                     moves |-> 0, released |-> FALSE]
               ELSE NoGesture
          [] call.type = "ButtonReleased" ->
               IF g.kind # "None" THEN [g EXCEPT !.released = TRUE] ELSE g
          [] call.type = "CursorMoved" ->
               IF g.kind # "None" /\ ~g.released /\ position.some
               THEN [g EXCEPT !.via = g.c1,
                              !.c1 = p,
                              !.moves = IF @ < 2 THEN @ + 1 ELSE @]
               ELSE g
          [] call.type = "WheelScrolled" ->
               IF g.kind # "None" /\ post.scaling # g.s THEN NoGesture ELSE g
          [] OTHER -> g

\* events after which update has called nodes_cache.clear()
ClearingEvent(pre, post, call, position) ==
    /\ position.some
    /\ \/ call.type = "ButtonPressed" /\ call.button = "Left"
       \/ call.type = "CursorMoved" /\ pre.interaction.kind # "None"
       \/ call.type = "WheelScrolled" /\ post.scaling # pre.scaling

(***************************************************************************)
(* Actions: one per kind of call the host makes                            *)
(***************************************************************************)
\* one call of update: the Network fields take the values update leaves,
\* the histories record the call
Deliver(type, button, y, cursor) ==
    /\ LET position == position_in(cursor, bounds)
           call == Call(type, button, y, position)
           pre == Self
           r == update(pre, call, bounds, cursor)
           post == r.self
           hit == IF position.some
                  THEN get_node_at_screen(
                           pre.nodes,
                           project(position, RectSize(bounds),
                                   pre.translation, pre.scaling))
                  ELSE NoNode
       IN  /\ nodes_cache' = post.nodes_cache
           /\ interaction' = post.interaction
           /\ translation' = post.translation
           /\ scaling' = post.scaling
           /\ nodes' = post.nodes
           /\ status' = r.status
           /\ ev' = [call |-> call, hit |-> hit,
                     before |-> pre.interaction,
                     selected |-> SelectedIds(pre.nodes),
                     changed |-> Drawn(post) # Drawn(pre),
                     rebuilt |-> FALSE, unchanged |-> FALSE, quiet |-> FALSE,
                     between |-> 0]
           /\ gest' = next_gest(gest, pre, post, call, position, hit)
           /\ hist' = [hist EXCEPT
                         !.changed = @ \/ Drawn(post) # Drawn(pre),
                         !.clearing = @ \/ ClearingEvent(pre, post, call,
                                                         position),
                         !.calls = @ + 1]
    /\ steps' = steps + 1
    /\ UNCHANGED bounds

\* one call of draw
DeliverDraw ==
    /\ LET pre == Self
           post == draw(pre, bounds)
           rebuilt == post.nodes_cache # pre.nodes_cache
       IN  /\ nodes_cache' = post.nodes_cache
           /\ ev' = [call |-> Call("Draw", "None", R(0), NoPosition),
                     hit |-> NoNode,
                     before |-> pre.interaction,
                     selected |-> SelectedIds(pre.nodes),
                     changed |-> FALSE,
                     rebuilt |-> rebuilt,
                     unchanged |-> hist.drawn /\ ~hist.changed,
                     quiet |-> hist.drawn /\ ~hist.clearing,
                     between |-> hist.calls]
           /\ hist' = [drawn |-> TRUE, changed |-> FALSE, clearing |-> FALSE,
                       calls |-> 0,
                       built_from |-> IF rebuilt THEN Drawn(pre)
                                      ELSE hist.built_from]
    /\ status' = "None"
    /\ steps' = steps + 1
    /\ UNCHANGED <<interaction, translation, scaling, nodes, bounds, gest>>

ButtonPressed ==
    \E button \in Buttons, cursor \in Cursors :
        /\ steps < MaxSteps
        /\ Deliver("ButtonPressed", button, R(0), cursor)

ButtonReleased ==
    \E button \in Buttons, cursor \in Cursors :
        /\ steps < MaxSteps
        /\ Deliver("ButtonReleased", button, R(0), cursor)

CursorMoved ==
    \E cursor \in Cursors :
        /\ steps < MaxSteps
        /\ Deliver("CursorMoved", "None", R(0), cursor)

WheelScrolled ==
    \E y \in WheelYs, cursor \in Cursors :
        /\ steps < MaxSteps
        /\ Deliver("WheelScrolled", "None", R(y), cursor)

\* any other mouse event (CursorEntered, CursorLeft) or a keyboard event
OtherEvent ==
    \E cursor \in Cursors :
        /\ steps < MaxSteps
        /\ Deliver("Other", "None", R(0), cursor)

Draw ==
    /\ steps < MaxSteps
    /\ DeliverDraw

Next ==
    \/ ButtonPressed
    \/ ButtonReleased
    \/ CursorMoved
    \/ WheelScrolled
    \/ OtherEvent
    \/ Draw

Spec == Init /\ [][Next]_vars

(***************************************************************************)
(* SpecGesture: longer behaviours over the events of a drag or a pan       *)
(***************************************************************************)
GesturePressed ==
    \E button \in GestureButtons, cursor \in GesturePressCursors :
        /\ steps < MaxGestureSteps
        /\ Deliver("ButtonPressed", button, R(0), cursor)

GestureReleased ==
    \E cursor \in GestureReleaseCursors :
        /\ steps < MaxGestureSteps
        /\ Deliver("ButtonReleased", "Left", R(0), cursor)

GestureMoved ==
    \E cursor \in GestureCursors :
        /\ steps < MaxGestureSteps
        /\ Deliver("CursorMoved", "None", R(0), cursor)

GestureWheel ==
    \E y \in GestureWheelYs, cursor \in GestureWheelCursors :
        /\ steps < MaxGestureSteps
        /\ Deliver("WheelScrolled", "None", R(y), cursor)

GestureNext ==
    \/ GesturePressed
    \/ GestureReleased
    \/ GestureMoved
    \/ GestureWheel

SpecGesture == Init /\ [][GestureNext]_vars

(***************************************************************************)
(* Properties                                                              *)
(***************************************************************************)
InBounds(e) == e.call.position.some

IsWheel(e) == e.call.type = "WheelScrolled" /\ InBounds(e)

IsLeftPress(e) ==
    e.call.type = "ButtonPressed" /\ e.call.button = "Left" /\ InBounds(e)

\* C1: after update has handled a button-released event, from any
\* interaction and with or without a cursor position inside the bounds, the
\* interaction is Idle (Interaction::None).
C1_ReleaseLeavesIdle ==
    ev.call.type = "ButtonReleased" => interaction = InteractionNone

\* a release handled while a node was being dragged and the cursor had no
\* position inside the bounds
C1_Witness ==
    /\ ev.call.type = "ButtonReleased"
    /\ ev.before.kind = "PanningNode"
    /\ ~InBounds(ev)
    /\ interaction = InteractionNone

\* C2: in every reachable state 0.1 <= scaling <= 2.0, hence scaling is
\* positive and no division by scaling divides by zero.
C2_ScalingWithinBounds ==
    /\ RLe(MIN_SCALING, scaling)
    /\ RLe(scaling, MAX_SCALING)
    /\ scaling[1] > 0

\* a wheel event with y = -60, whose product scaling * (1 + y/30) is
\* negative, has been handled and left scaling at the lower bound
C2_Witness ==
    /\ IsWheel(ev)
    /\ ev.call.y = R(-60)
    /\ ev.changed
    /\ scaling = MIN_SCALING

Clamp(v, lo, hi) == IF RLt(v, lo) THEN lo ELSE IF RLt(hi, v) THEN hi ELSE v

\* C3: for a wheel event delivered with the cursor inside the bounds: if
\* y > 0 and scaling < 2.0 the new scaling is strictly greater than the old
\* one and at most 2.0; if y < 0 and scaling > 0.1 it is strictly smaller
\* and at least 0.1; the new scaling is clamp(scaling * (1 + y/30), 0.1, 2.0).
C3_ZoomStep ==
    [][IsWheel(ev') =>
         LET y == ev'.call.y
         IN  /\ (RLt(R(0), y) /\ RLt(scaling, MAX_SCALING))
                    => RLt(scaling, scaling') /\ RLe(scaling', MAX_SCALING)
             /\ (RLt(y, R(0)) /\ RLt(MIN_SCALING, scaling))
                    => RLt(scaling', scaling) /\ RLe(MIN_SCALING, scaling')
             /\ scaling' = Clamp(RDiv(RMul(scaling, RAdd(R(30), y)), R(30)),
                                 <<1, 10>>, R(2))]_vars

\* a zoom-in step with y = 30 has doubled scaling from 0.5 back to 1.0,
\* after an earlier zoom-out step
C3_Witness ==
    /\ IsWheel(ev)
    /\ ev.call.y = R(30)
    /\ ev.changed
    /\ scaling = R(1)

\* the raw product of a zoom step lies strictly between the two bounds
Unclamped(s, y) ==
    LET raw == RMul(s, RAdd(R(1), RDiv(y, R(30))))
    IN  RLt(MIN_SCALING, raw) /\ RLt(raw, MAX_SCALING)

\* C4: a wheel step that changes scaling without reaching a clamp bound
\* keeps the world point under the cursor fixed: project(p) under the old
\* translation and scaling equals project(p) under the new ones.
C4_ZoomKeepsCursorPoint ==
    [][(IsWheel(ev') /\ scaling' # scaling /\ Unclamped(scaling, ev'.call.y)) =>
         LET p == Vec(ev'.call.position.x, ev'.call.position.y)
         IN  project(p, RectSize(bounds), translation, scaling)
               = project(p, RectSize(bounds), translation', scaling')]_vars

\* the node of the store with the given id
NodeById(id) == nodes[CHOOSE i \in 1..Len(nodes) : nodes[i].id = id]

\* C5: after a left-press at cursor c0 that hits a node at (x, y), any
\* number of in-bounds cursor-moves ending at c1, with scaling s unchanged
\* and no other button event, leave the node at
\* (x + (c1.x - c0.x)/s, y + (c1.y - c0.y)/s), whatever the intermediate
\* cursor positions were; a release leaves it there.
C5_NodeDragPathIndependent ==
    gest.kind = "node" =>
        get_pos(NodeById(gest.id))
          = Vec(RAdd(gest.origin.x, RDiv(RSub(gest.c1.x, gest.c0.x), gest.s)),
                RAdd(gest.origin.y, RDiv(RSub(gest.c1.y, gest.c0.y), gest.s)))

\* a drag at scaling 0.5 over two moves through an intermediate cursor
\* position different from the final one, then released
C5_Witness ==
    /\ gest.kind = "node"
    /\ gest.moves = 2
    /\ gest.via # gest.c1
    /\ gest.via # gest.c0
    /\ gest.c1 # gest.c0
    /\ gest.s = <<1, 2>>
    /\ gest.released
    /\ interaction = InteractionNone

\* C6: after a middle-press at cursor c0 with translation t0, any number of
\* in-bounds cursor-moves ending at c1, with scaling s unchanged and no
\* other button event, leave translation = t0 + (c1 - c0)/s.
C6_ScreenPanPathIndependent ==
    gest.kind = "screen" =>
        translation
          = Vec(RAdd(gest.origin.x, RDiv(RSub(gest.c1.x, gest.c0.x), gest.s)),
                RAdd(gest.origin.y, RDiv(RSub(gest.c1.y, gest.c0.y), gest.s)))

\* a pan at scaling 0.5 over two moves through an intermediate cursor
\* position different from the final one
C6_Witness ==
    /\ gest.kind = "screen"
    /\ gest.moves = 2
    /\ gest.via # gest.c1
    /\ gest.via # gest.c0
    /\ gest.c1 # gest.c0
    /\ gest.s = <<1, 2>>
    /\ interaction.kind = "PanningScreen"

C8_LeftPressOnEmpty ==
    [][(IsLeftPress(ev') /\ ev'.hit = NoNode) =>
         /\ \A i \in 1..Len(nodes') : ~nodes'[i].is_selected
         /\ interaction' = interaction
         /\ translation' = translation
         /\ scaling' = scaling
         /\ Len(nodes') = Len(nodes)
         /\ \A i \in 1..Len(nodes) : nodes'[i].bounds = nodes[i].bounds]_vars

\* a left-press on empty space during a drag of a selected node: the node
\* is unselected and the drag is still in progress
C8_Witness ==
    /\ IsLeftPress(ev)
    /\ ev.hit = NoNode
    /\ ev.selected # {}
    /\ ev.before.kind = "PanningNode"
    /\ SelectedIds(nodes) = {}
    /\ interaction = ev.before

\* C9: whenever the node cache is filled, the node positions, selection
\* flags, translation and scaling it was built from are the current ones
\* (its geometry is the geometry of the current state), and a call that
\* changes any of them leaves the cache cleared.
C9_CacheNeverStale ==
    /\ nodes_cache.state = "Filled" =>
           /\ hist.built_from = Drawn(Self)
           /\ nodes_cache.primitive = nodes_geometry(Self, bounds)
    /\ ev.changed => nodes_cache.state = "Empty"

\* a draw that rebuilt the cache after a selection and a zoom step
C9_Witness ==
    /\ ev.call.type = "Draw"
    /\ ev.rebuilt
    /\ nodes_cache.state = "Filled"
    /\ scaling # R(1)
    /\ SelectedIds(nodes) # {}

\* C10 as stated: a draw that follows an earlier draw, with no change of
\* node positions, selection flags, translation or scaling in between,
\* does not run the node-drawing closure, whatever events came in between.
C10_NoRebuildWithoutChange ==
    (ev.call.type = "Draw" /\ ev.unchanged) => ~ev.rebuilt

\* C10 amended: a draw that follows an earlier draw, with no change in
\* between and with no in-bounds left-press and no in-bounds cursor-move
\* during a gesture in between, does not run the node-drawing closure.
C10_NoRebuildWithoutClearingEvent ==
    (ev.call.type = "Draw" /\ ev.unchanged /\ ev.quiet) => ~ev.rebuilt

\* a second draw that reused the cache although a middle-press started a
\* pan between the two draws
C10_Witness ==
    /\ ev.call.type = "Draw"
    /\ ev.unchanged
    /\ ev.quiet
    /\ ev.between > 0
    /\ ~ev.rebuilt
    /\ interaction.kind = "PanningScreen"

InputEvents == {"ButtonPressed", "ButtonReleased", "CursorMoved",
                "WheelScrolled"}

\* C11: for events delivered with the cursor inside the bounds, update
\* returns Captured for every button-press, every button-release, every
\* cursor-move during PanningScreen or PanningNode and every wheel event,
\* and Ignored for a cursor-move while Idle.
C11_EventStatus ==
    InBounds(ev) =>
        /\ ev.call.type = "ButtonPressed" => status = "Captured"
        /\ ev.call.type = "ButtonReleased" => status = "Captured"
        /\ ev.call.type = "WheelScrolled" => status = "Captured"
        /\ (ev.call.type = "CursorMoved" /\ ev.before.kind # "None")
               => status = "Captured"
        /\ (ev.call.type = "CursorMoved" /\ ev.before.kind = "None")
               => status = "Ignored"

\* C12 as stated: an input event delivered when the cursor has no position
\* inside the bounds returns Ignored and leaves the interaction,
\* translation, scaling, nodes and cache as they were.
C12_OutOfBoundsIgnored ==
    [][(ev'.call.type \in InputEvents /\ ~InBounds(ev')) =>
         /\ status' = "Ignored"
         /\ interaction' = interaction
         /\ translation' = translation
         /\ scaling' = scaling
         /\ nodes' = nodes
         /\ nodes_cache' = nodes_cache]_vars

\* C12 amended: an input event delivered when the cursor has no position
\* inside the bounds returns Ignored and leaves translation, scaling, nodes
\* and cache as they were; the interaction is as it was for a press, a
\* cursor-move and a wheel event, and is Idle after a button-release.
C12_OutOfBoundsOnlyReleaseActs ==
    [][(ev'.call.type \in InputEvents /\ ~InBounds(ev')) =>
         /\ status' = "Ignored"
         /\ interaction' = IF ev'.call.type = "ButtonReleased"
                           THEN InteractionNone ELSE interaction
         /\ translation' = translation
         /\ scaling' = scaling
         /\ nodes' = nodes
         /\ nodes_cache' = nodes_cache]_vars

\* a cursor-move without a position inside the bounds, delivered during a
\* node drag, was ignored and the drag is still in progress
C12_Witness ==
    /\ ev.call.type = "CursorMoved"
    /\ ~InBounds(ev)
    /\ ev.before.kind = "PanningNode"
    /\ status = "Ignored"
    /\ interaction = ev.before

\* C13: once the interaction is PanningNode or PanningScreen it keeps its
\* variant and its recorded fields under every call that is not a
\* button-release; in particular no button-press replaces or alters it.
C13_GestureKeptUntilRelease ==
    [][(interaction.kind # "None" /\ ev'.call.type # "ButtonReleased")
          => interaction' = interaction]_vars

CallPosition(e) == Vec(e.call.position.x, e.call.position.y)

IsMiddlePress(e) ==
    e.call.type = "ButtonPressed" /\ e.call.button = "Middle" /\ InBounds(e)

\* C14: the interaction leaves Idle only to PanningNode{n, n's current
\* (x, y), cursor} on an in-bounds left-press that hits node n, or to
\* PanningScreen{current translation, cursor} on an in-bounds middle-press;
\* cursor-moves, wheel events, presses of other buttons and left-presses on
\* empty space never change the active variant.
C14_LeavingIdle ==
    [][/\ (interaction.kind = "None" /\ interaction'.kind # "None") =>
             \/ /\ IsLeftPress(ev')
                /\ ev'.hit # NoNode
                /\ interaction' = PanningNode(ev'.hit,
                                              get_pos(NodeById(ev'.hit)),
                                              CallPosition(ev'))
             \/ /\ IsMiddlePress(ev')
                /\ interaction' = PanningScreen(translation,
                                                CallPosition(ev'))
       /\ (\/ ev'.call.type \in {"CursorMoved", "WheelScrolled"}
           \/ ev'.call.type = "ButtonPressed"
                /\ ev'.call.button \notin {"Left", "Middle"}
           \/ IsLeftPress(ev') /\ ev'.hit = NoNode)
             => interaction'.kind = interaction.kind]_vars

\* a left-press from Idle, after a zoom step, that hit node 1 and started
\* its drag
C14_Witness ==
    /\ IsLeftPress(ev)
    /\ ev.before = InteractionNone
    /\ ev.hit = 1
    /\ scaling # R(1)
    /\ interaction.kind = "PanningNode"
    /\ interaction.node_id = 1
    /\ interaction.start = CallPosition(ev)

\* the fields of a node that no call changes
Fixed(ns) ==
    [i \in 1..Len(ns) |->
        [id |-> ns[i].id, width |-> ns[i].bounds.width,
         height |-> ns[i].bounds.height, color |-> ns[i].color]]

\* C15: translation changes only on a cursor-move in PanningScreen or a
\* wheel event that changes scaling; scaling changes only on a wheel
\* event; a node's (x, y) changes only on a cursor-move in PanningNode and
\* only for the node recorded in the interaction; ids, widths, heights and
\* colors never change; a button-release changes nothing but the
\* interaction; a cursor-move in Idle changes nothing.
C15_FrameConditions ==
    [][/\ translation' # translation =>
             \/ ev'.call.type = "CursorMoved"
                  /\ interaction.kind = "PanningScreen"
             \/ ev'.call.type = "WheelScrolled" /\ scaling' # scaling
       /\ scaling' # scaling => ev'.call.type = "WheelScrolled"
       /\ Len(nodes') = Len(nodes)
       /\ \A i \in 1..Len(nodes) :
             get_pos(nodes'[i]) # get_pos(nodes[i]) =>
                 /\ ev'.call.type = "CursorMoved"
                 /\ interaction.kind = "PanningNode"
                 /\ nodes[i].id = interaction.node_id
       /\ Fixed(nodes') = Fixed(nodes)
       /\ ev'.call.type = "ButtonReleased" =>
             /\ translation' = translation
             /\ scaling' = scaling
             /\ nodes' = nodes
             /\ nodes_cache' = nodes_cache
       /\ (ev'.call.type = "CursorMoved" /\ interaction.kind = "None") =>
             /\ interaction' = interaction
             /\ translation' = translation
             /\ scaling' = scaling
             /\ nodes' = nodes
             /\ nodes_cache' = nodes_cache]_vars

\* a release after a drag that moved node 1: the node is where it was
\* dropped and still selected
C15_Witness ==
    /\ ev.call.type = "ButtonReleased"
    /\ ev.before.kind = "PanningNode"
    /\ gest.kind = "node"
    /\ gest.released
    /\ gest.c1 # gest.c0
    /\ get_pos(NodeById(gest.id)) # gest.origin
    /\ gest.id \in SelectedIds(nodes)
    /\ interaction = InteractionNone

\* C16: a wheel event that cannot move scaling in its direction (y > 0 at
\* scaling 2.0, y < 0 at scaling 0.1, or y = 0) leaves scaling,
\* translation, nodes, the interaction and the cache unchanged.
C16_SaturatedWheelNoOp ==
    [][(/\ ev'.call.type = "WheelScrolled"
        /\ \/ RLt(R(0), ev'.call.y) /\ scaling = R(2)
           \/ RLt(ev'.call.y, R(0)) /\ scaling = <<1, 10>>
           \/ ev'.call.y = R(0))
          => /\ scaling' = scaling
             /\ translation' = translation
             /\ nodes' = nodes
             /\ interaction' = interaction
             /\ nodes_cache' = nodes_cache]_vars

\* a zoom-in wheel event at scaling 2.0, delivered in bounds with a filled
\* cache, that left the cache filled
C16_Witness ==
    /\ IsWheel(ev)
    /\ RLt(R(0), ev.call.y)
    /\ scaling = MAX_SCALING
    /\ ~ev.changed
    /\ nodes_cache.state = "Filled"

\* the world point under the cursor of the last call
WorldPoint(e, t, k) == project(CallPosition(e), RectSize(bounds), t, k)

\* C17: hit-testing is first-match in store order: the hit is the id of
\* the node with the smallest store index whose bounds contain the world
\* point, and none exactly when no node contains it; a left-press then
\* selects and drags exactly that node.
C17_FirstMatchHit ==
    [][InBounds(ev') =>
         LET w == WorldPoint(ev', translation, scaling)
             containing == {i \in 1..Len(nodes) :
                               contains(nodes[i].bounds, w)}
         IN  /\ ev'.hit = NoNode <=> containing = {}
             /\ \A i \in containing :
                   (\A j \in containing : i <= j) =>
                       /\ ev'.hit = nodes[i].id
                       /\ IsLeftPress(ev') =>
                             /\ interaction'.kind = "PanningNode"
                             /\ interaction'.node_id = nodes[i].id
                             /\ interaction'.translation = get_pos(nodes[i])
                             /\ nodes'[i] = set_selected(nodes[i], TRUE)
                             /\ \A j \in 1..Len(nodes) :
                                   j # i => nodes'[j] = nodes[j]]_vars

\* a left-press on a point that both nodes of the store contain: node 0,
\* the first in store order, is the one selected and dragged
C17_Witness ==
    /\ IsLeftPress(ev)
    /\ Len(nodes) = 2
    /\ \A i \in 1..2 :
          contains(nodes[i].bounds, WorldPoint(ev, translation, scaling))
    /\ ev.hit = 0
    /\ interaction.kind = "PanningNode"
    /\ interaction.node_id = 0
    /\ SelectedIds(nodes) = {0}

Ids(ns) == {ns[i].id : i \in 1..Len(ns)}

\* C19: the set of node ids in the store is the same in every reachable
\* state, ids are unique, and whenever the interaction is PanningNode its
\* node_id resolves to a node of the store, so the lookups of the
\* left-press and of the cursor-move in PanningNode always find the node.
C19_NoStaleReference ==
    /\ [](/\ \A i, j \in 1..Len(nodes) :
               nodes[i].id = nodes[j].id => i = j
          /\ interaction.kind = "PanningNode" =>
               interaction.node_id \in Ids(nodes)
          /\ ev.hit # NoNode => ev.hit \in Ids(nodes))
    /\ [][Ids(nodes') = Ids(nodes) /\ Len(nodes') = Len(nodes)]_vars

\* a cursor-move in PanningNode on node 1 whose lookup found the node and
\* moved it
C19_Witness ==
    /\ ev.call.type = "CursorMoved"
    /\ InBounds(ev)
    /\ ev.before.kind = "PanningNode"
    /\ ev.before.node_id = 1
    /\ ev.changed
    /\ get_pos(NodeById(1)) # get_pos(TwoStore[2])
    /\ interaction = ev.before

\* C20: whenever the interaction is PanningNode the node it references is
\* selected.
C20_DraggedNodeSelected ==
    interaction.kind = "PanningNode" =>
        \A i \in 1..Len(nodes) :
            nodes[i].id = interaction.node_id => nodes[i].is_selected

====
